---- MODULE Spec2Model ----
(***************************************************************************)
(* Model of dimensional_structure/results.py: the EFA_Analysis and         *)
(* HCA_Analysis result caches of one analysis session, and the bootstrap   *)
(* controller of Results (run_bootstrap, run_parallel_boot,                *)
(* reduce_boot_files).                                                     *)
(*                                                                         *)
(* Objects computed by the external routines (loading matrices, score      *)
(* curves, clusterings, ...) are modelled by their identity relative to    *)
(* the last call on the analysis object that owns them: "new" if that call *)
(* computed the object, "old" if the object was already stored before it.  *)
(*                                                                         *)
(* The adequacy statistics are kept in fixed point: kmo in tenths,         *)
(* barlett_p in hundredths.                                                *)
(***************************************************************************)
EXTENDS Integers, Sequences, FiniteSets, TLC

\* ------------------------------------------------------------ bounds
MaxOps == 4          \* operations called on one session
MaxCount == 2        \* largest factor count a criterion may choose
MaxReps == 2         \* largest reps given to run_parallel_boot
MaxIDs == 2          \* identifiers random.getrandbits may return here
NWorkers == 2        \* processes of the pool
MaxTree == 3         \* largest factor tree given to get_nesting_matrix
MaxVars == 2         \* most variables (rows of a loading matrix)
MaxNullReps == 2     \* largest explicit reps of get_null_loading_entropy
NRows == 2           \* rows of the session's dataset
MaxBoots == 2        \* bootstrap repetitions called directly on a session

\* ------------------------------------------------- program constants
KMO_MIN == 6         \* KMO_MSA > .6   (tenths)
P_MAX == 5           \* Barlett_p < .05 (hundredths)
MARGIN == 5          \* max_factors = max(metric_cs) + 5
ID_BITS == 16        \* ID = random.getrandbits(16)
EXPLAINED_THRESHOLD == 5   \* explained_threshold=.5 (tenths)
DEFAULT_REPS == 50   \* get_null_loading_entropy(self, c, reps=50)

Metrics == {"BIC", "parallel", "SABIC", "CV"}
DefaultMetrics == {"BIC", "parallel"}
\* the sets of criteria get_dimensionality is called with
MetricSets == {{}, {"BIC", "parallel"}, {"SABIC"}, {"CV"}, {"parallel", "CV"}}

VARIABLES
    kmo,            \* KMO statistic of the session's data
    barlett_p,      \* Bartlett p-value of the session's data
    has_no_impute,  \* EFA.data_no_impute is set
    results,        \* EFA.results
    max_factors,    \* EFA.max_factors
    hca,            \* HCA.results
    clock,          \* operations called so far
    last,           \* log of the last operation
    pc,             \* where the caller of run_parallel_boot is
    reps,           \* run_parallel_boot's reps
    run_HCA,        \* run_parallel_boot's run_HCA
    task,           \* repetition -> how far its run_bootstrap got
    tid,            \* repetition -> the ID it generated
    worker,         \* pool process -> the repetition it runs (0: idle)
    files,          \* save_dir: ID -> the file bootstrap_ID-<ID>.pkl
    reduced,        \* what the last reduce_boot_files call did
    tree_len,       \* len(results['factor_tree']) seen by the two functions
    n_vars,         \* number of variables (rows of each loading matrix)
    lower_nesting,  \* results['lower_nesting']: (low, high) -> scores
    nesting,        \* what the last get_nesting_matrix call returned
    null_out,       \* what the last get_null_loading_entropy call returned
    data,           \* the session's dataset: its rows, in order
    objs,           \* analysis objects constructed so far
    boots,          \* the objects each bootstrap repetition constructed
    boot,           \* log of the last bootstrap repetition
    summary         \* the last reduce_boot call: the run and the result

sessionVars == <<kmo, barlett_p, has_no_impute, results, max_factors, hca,
                 clock, last>>

bootVars == <<pc, reps, run_HCA, task, tid, worker, files, reduced>>

fnVars == <<tree_len, n_vars, lower_nesting, nesting, null_out>>

repVars == <<data, objs, boots, boot, summary>>

\* ------------------------------------------------------------ helpers
EmptyMap == [x \in {} |-> "old"]

\* every object stored in a map or a sequence, as seen by the next call
Aged(f) == [x \in DOMAIN f |-> "old"]

Put(f, k, v) == [x \in (DOMAIN f) \cup {k} |-> IF x = k THEN v ELSE f[x]]

SeqMax(S) == CHOOSE x \in S : \A y \in S : y <= x


\* EFA_Analysis.__init__: self.results = {}
EmptyResults ==
    [EFA_adequacy |-> FALSE,       \* key 'EFA_adequacy' present
     c |-> EmptyMap,               \* 'c_metric-<m>' entries
     cscores |-> EmptyMap,         \* 'cscores_metric-<m>' entries
     has_tree |-> FALSE,           \* key 'factor_tree' present
     factor_tree |-> <<>>,         \* count c -> loading matrix
     factor_tree_Rout |-> <<>>,
     has_nesting |-> FALSE,        \* key 'lower_nesting' present
     lower_nesting |-> "old",
     has_entropies |-> FALSE,
     entropies |-> EmptyMap,       \* count c -> entropy column
     null_entropies |-> EmptyMap]

NoLog == [op |-> "none", rerun |-> FALSE, outcome |-> "none", calls |-> {},
          extracted |-> {}, clustered |-> {}, metrics |-> {}, again |-> FALSE]

\* results as the next call of the EFA object finds it
OldResults(r) ==
    [r EXCEPT !.cscores = Aged(@), !.factor_tree = Aged(@),
              !.factor_tree_Rout = Aged(@), !.lower_nesting = "old",
              !.entropies = Aged(@), !.null_entropies = Aged(@)]

\* HCA.results as the next call of the HCA object finds it
OldHCA(h) == [k \in DOMAIN h |-> [h[k] EXCEPT !.obj = "old"]]

\* ------------------------------------------------------- EFA_Analysis

\* (mutant) the sampling-adequacy threshold taken as inclusive
Adequate_inclusive(k, p) == k >= KMO_MIN /\ p < P_MAX

\* adequacy_test: adequate = KMO_MSA>.6 and Barlett_p < .05
Adequate(k, p) == k > KMO_MIN /\ p < P_MAX

\* get_metric_cs: the 'c_metric-' entries of results
get_metric_cs(r) == r.c

\* the order in which the entries of get_metric_cs are visited; a loop
\* over them that raises stops at the first entry that raises
MetricOrder == <<"BIC", "parallel", "SABIC", "CV">>

metric_keys(r) ==
    SelectSeq(MetricOrder, LAMBDA m : m \in DOMAIN get_metric_cs(r))

\* A call in progress: the state it has produced so far, how it ended
\* ("ok": still running / returned normally), the computation steps it
\* has invoked and the counts it ran the extraction routine for.
Frame(r, mf, o, calls, extracted) ==
    [results |-> r, max_factors |-> mf, outcome |-> o, calls |-> calls,
     extracted |-> extracted]

\* the value of the last statement of a sequence of statements
Only(S) == CHOOSE x \in S : TRUE

\* get_dimensionality, lines 50-53 and 60-64: an information criterion
dim_IC(x, m, metrics, cnt, t) ==
    IF m \notin metrics THEN x
    ELSE [x EXCEPT !.results.c = Put(@, m, cnt[m]),
                   !.results.cscores = Put(@, m, t),
                   !.calls = @ \cup {<<"find_optimal_components", m>>}]

\* get_dimensionality, lines 54-59: parallel analysis
dim_parallel(x, metrics, cnt) ==
    IF "parallel" \notin metrics THEN x
    ELSE [x EXCEPT !.results.c = Put(@, "parallel", cnt["parallel"]),
                   !.calls = @ \cup {<<"fa_parallel", "parallel">>}]

\* get_dimensionality, lines 65-74: the cross-validated criterion; reading
\* self.data_no_impute raises AttributeError when it was never set
dim_CV(x, noimp, metrics, cnt, t) ==
    IF "CV" \notin metrics THEN x
    ELSE IF noimp THEN dim_IC(x, "CV", metrics, cnt, t)
    ELSE [x EXCEPT !.calls = @ \cup {<<"print", "CV">>}]

\* get_dimensionality, lines 76-78: max() of no counts raises ValueError
dim_max(x) ==
    LET metric_cs == {x.results.c[m] : m \in DOMAIN get_metric_cs(x.results)}
    IN  IF metric_cs = {}
        THEN [x EXCEPT !.outcome = "ValueError"]
        ELSE [x EXCEPT !.max_factors = SeqMax(metric_cs) + MARGIN]

\* get_dimensionality(metrics): cnt gives the count each external criterion
\* returns, t stamps the score curves computed now
get_dimensionality(r, mf, noimp, metrics, cnt, t) ==
    Only({dim_max(x4) :
      x4 \in {dim_CV(x3, noimp, metrics, cnt, t) :
      x3 \in {dim_IC(x2, "SABIC", metrics, cnt, t) :
      x2 \in {dim_parallel(x1, metrics, cnt) :
      x1 \in {dim_IC(x0, "BIC", metrics, cnt, t) :
      x0 \in {Frame(r, mf, "ok", {}, {})}}}}}})

\* (mutant) the stored BIC count decides whether selection is performed
NeedDimensionality_BIC(r, rerun) == "BIC" \notin DOMAIN r.c \/ rerun

\* run, line 119: is model-order selection performed
NeedDimensionality(r, rerun) == "parallel" \notin DOMAIN r.c \/ rerun

\* (mutant) a tree whose length is not max_factors is built again
NeedTree_resized(r, mf, rerun) ==
    (IF r.has_tree THEN Len(r.factor_tree) ELSE 0) # mf \/ rerun

\* (mutant) the tree is built only when it is too short, rerun or not
NeedTree_norerun(r, mf, rerun) ==
    (IF r.has_tree THEN Len(r.factor_tree) ELSE 0) < mf

\* (mutant) a tree that just covers max_factors is built again
NeedTree_always(r, mf, rerun) ==
    (IF r.has_tree THEN Len(r.factor_tree) ELSE 0) <= mf \/ rerun

\* run, lines 125-126: is the factor tree built
NeedTree(r, mf, rerun) ==
    (IF r.has_tree THEN Len(r.factor_tree) ELSE 0) < mf \/ rerun

\* create_factor_tree(data, (1, hi)): one extraction per count of the range,
\* returned as a new tree (the caller hands it no existing tree)
create_factor_tree(lo, hi, t) ==
    [ftree |-> [c \in 1..hi |-> t], extracted |-> lo..hi]

\* run, line 138-139: the counts entropies are computed for
EntropyCounts(mf) == {c \in 0..(mf - 1) : c > 1}

\* run, lines 113-116: the adequacy check
run_adequacy(x, k, p) ==
    IF ~Adequate(k, p)
    THEN [x EXCEPT !.outcome = "AssertionError",
                   !.calls = @ \cup {<<"adequacy_test", "">>}]
    ELSE [x EXCEPT !.results.EFA_adequacy = TRUE,
                   !.calls = @ \cup {<<"adequacy_test", "">>}]

\* run, lines 119-121: model-order selection
run_dimensionality(x, noimp, rerun, cnt, t) ==
    IF x.outcome # "ok" \/ ~NeedDimensionality(x.results, rerun) THEN x
    ELSE Only({[d EXCEPT !.calls = x.calls \cup @
                                    \cup {<<"get_dimensionality", "">>}] :
               d \in {get_dimensionality(x.results, x.max_factors, noimp,
                                         DefaultMetrics, cnt, t)}})

\* (mutant) a build that fails stores the counts extracted before the failure
run_tree_partial(x, rerun, fit_ok, t) ==
    IF x.outcome # "ok" \/ ~NeedTree(x.results, x.max_factors, rerun) THEN x
    ELSE Only({[x EXCEPT !.outcome = IF fit_ok THEN "ok"
                                     ELSE "ExtractionError",
                         !.results.has_tree = TRUE,
                         !.results.factor_tree =
                            IF fit_ok THEN ft.ftree
                            ELSE SubSeq(ft.ftree, 1, x.max_factors - 1),
                         !.results.factor_tree_Rout =
                            IF fit_ok THEN ft.ftree
                            ELSE SubSeq(ft.ftree, 1, x.max_factors - 1),
                         !.extracted = ft.extracted,
                         !.calls = @ \cup {<<"create_factor_tree", "">>}] :
               ft \in {create_factor_tree(1, x.max_factors, t)}})

\* run, lines 125-130: the factor tree
run_tree(x, rerun, fit_ok, t) ==
    IF x.outcome # "ok" \/ ~NeedTree(x.results, x.max_factors, rerun) THEN x
    ELSE IF ~fit_ok
    THEN [x EXCEPT !.outcome = "ExtractionError",
                   !.calls = @ \cup {<<"create_factor_tree", "">>}]
    ELSE Only({[x EXCEPT !.results.has_tree = TRUE,
                         !.results.factor_tree = ft.ftree,
                         !.results.factor_tree_Rout = ft.ftree,
                         !.extracted = ft.extracted,
                         !.calls = @ \cup {<<"create_factor_tree", "">>}] :
               ft \in {create_factor_tree(1, x.max_factors, t)}})

\* run, line 133: quantify_lower_nesting(self.results['factor_tree'])
run_nesting(x, t) ==
    IF x.outcome # "ok" THEN x
    ELSE IF ~x.results.has_tree THEN [x EXCEPT !.outcome = "KeyError"]
    ELSE [x EXCEPT !.results.has_nesting = TRUE,
                   !.results.lower_nesting = t,
                   !.calls = @ \cup {<<"quantify_lower_nesting", "">>}]

\* run, lines 136-143: entropies of every count of range(max_factors)
\* above 1; results['factor_tree'][c] raises KeyError for a missing count
run_entropies(x, t) ==
    IF x.outcome # "ok" THEN x
    ELSE LET ecs == EntropyCounts(x.max_factors)
         IN  IF \E c \in ecs : c \notin 1..Len(x.results.factor_tree)
             THEN [x EXCEPT !.outcome = "KeyError",
                            !.calls = @ \cup {<<"get_loading_entropy", "">>}]
             ELSE [x EXCEPT !.results.has_entropies = TRUE,
                            !.results.entropies = [c \in ecs |-> t],
                            !.results.null_entropies = [c \in ecs |-> t],
                            !.calls = @ \cup
                               (IF ecs = {} THEN {}
                                ELSE {<<"get_loading_entropy", "">>,
                                      <<"get_null_loading_entropy", "">>})]

\* EFA_Analysis.run(rerun): the state it leaves, how it ended, the
\* computation steps it invoked and the counts it ran the extraction for
run(r, mf, noimp, k, p, rerun, cnt, fit_ok, t) ==
    Only({run_entropies(x4, t) :
      x4 \in {run_nesting(x3, t) :
      x3 \in {run_tree(x2, rerun, fit_ok, t) :
      x2 \in {run_dimensionality(x1, noimp, rerun, cnt, t) :
      x1 \in {run_adequacy(x0, k, p) :
      x0 \in {Frame(r, mf, "ok", {}, {})}}}}}})

\* ------------------------------------------------------- HCA_Analysis
DataKey == <<"data", 0>>

EFAKey(c) == <<"EFA", c>>

\* (mutant) the clustering of the raw dataset is computed but not stored
cluster_data_dropped(h, t) == h

\* cluster_data: results['clustering_metric-<name>_input-data'] = output
cluster_data(h, t) == Put(h, DataKey, [obj |-> t, input |-> 0])

\* (mutant) the loading matrix of the largest count is clustered instead
cluster_EFA_largest(h, r, c, t) ==
    Put(h, EFAKey(c), [obj |-> t, input |-> Len(r.factor_tree)])

\* cluster_EFA: results['clustering_metric-<name>_input-EFA<c>'] = output,
\* computed from EFA.results['factor_tree'][c] (input: the count whose
\* loading matrix was clustered, 0 for the raw dataset)
cluster_EFA(h, r, c, t) ==
    Put(h, EFAKey(c), [obj |-> t, input |-> c])

\* run, line 209-210: is the raw dataset clustered
NeedClusterData(h, rerun) == DataKey \in DOMAIN h \/ rerun

\* run, lines 214-215: for c in EFA.get_metric_cs().values()
RECURSIVE cluster_loop(_, _, _, _, _)
cluster_loop(h, r, ms, t, done) ==
    IF ms = <<>>
    THEN [hca |-> h, outcome |-> "ok", clustered |-> done]
    ELSE LET c == get_metric_cs(r)[Head(ms)]
         IN  IF ~r.has_tree \/ c \notin 1..Len(r.factor_tree)
             THEN [hca |-> h, outcome |-> "KeyError", clustered |-> done]
             ELSE cluster_loop(cluster_EFA(h, r, c, t), r, Tail(ms), t,
                               done \cup {EFAKey(c)})

\* HCA_Analysis.run(data, EFA, rerun)
HCA_run(h, r, rerun, t) ==
    LET cd == NeedClusterData(h, rerun)
        h1 == IF cd THEN cluster_data(h, t) ELSE h
    IN  cluster_loop(h1, r, metric_keys(r), t, IF cd THEN {DataKey} ELSE {})

\* ------------------------------------------------- the session's calls
Log(op, rerun, o, calls, extracted, clustered, metrics) ==
    [op |-> op, rerun |-> rerun, outcome |-> o, calls |-> calls,
     extracted |-> extracted, clustered |-> clustered, metrics |-> metrics,
     \* the call before was the same call and returned normally
     again |-> (last.op = op /\ last.rerun = rerun /\ last.outcome = "ok")]

\* Results.__init__ / EFA_Analysis.__init__ / HCA_Analysis.__init__
SessionInit ==
    /\ kmo \in {KMO_MIN, KMO_MIN + 1}
    /\ barlett_p \in {P_MAX - 1, P_MAX}
    /\ has_no_impute \in BOOLEAN
    /\ results = EmptyResults
    /\ max_factors = 0
    /\ hca = EmptyMap
    /\ clock = 0
    /\ last = NoLog

\* EFA.run(rerun) (Results.run_EFA_analysis delegates to it)
Run(rerun, cnt, fit_ok) ==
    /\ clock < MaxOps
    /\ \E o \in {run(OldResults(results), max_factors, has_no_impute, kmo,
                    barlett_p, rerun, cnt, fit_ok, "new")} :
           \* the extraction routine can fail only in a run that invokes it
           /\ fit_ok \/ o.outcome = "ExtractionError"
           /\ results' = o.results
           /\ max_factors' = o.max_factors
           /\ last' = Log("run", rerun, o.outcome, o.calls, o.extracted, {}, {})
    /\ clock' = clock + 1
    /\ UNCHANGED <<kmo, barlett_p, has_no_impute, hca>>
    /\ UNCHANGED <<bootVars, fnVars, repVars>>

\* EFA.get_dimensionality(metrics)
GetDimensionality(metrics, cnt) ==
    /\ clock < MaxOps
    /\ \E o \in {get_dimensionality(OldResults(results), max_factors,
                                    has_no_impute, metrics, cnt, "new")} :
           /\ results' = o.results
           /\ max_factors' = o.max_factors
           /\ last' = Log("get_dimensionality", FALSE, o.outcome, o.calls,
                          o.extracted, {}, metrics)
    /\ clock' = clock + 1
    /\ UNCHANGED <<kmo, barlett_p, has_no_impute, hca>>
    /\ UNCHANGED <<bootVars, fnVars, repVars>>

\* HCA.run(data, EFA, rerun)
HCARun(rerun) ==
    /\ clock < MaxOps
    /\ \E o \in {HCA_run(OldHCA(hca), results, rerun, "new")} :
           /\ hca' = o.hca
           /\ last' = Log("HCA.run", rerun, o.outcome, {}, {}, o.clustered, {})
    /\ clock' = clock + 1
    /\ UNCHANGED <<kmo, barlett_p, has_no_impute, results, max_factors>>
    /\ UNCHANGED <<bootVars, fnVars, repVars>>

\* (mutant) a run_HCA_analysis that raises also empties EFA.results
RunHCAAnalysis_resets ==
    /\ clock < MaxOps
    /\ \E o \in {HCA_run(OldHCA(hca), results, TRUE, "new")} :
           /\ hca' = o.hca
           /\ results' = IF o.outcome = "ok" THEN results ELSE EmptyResults
           /\ last' = Log("run_HCA_analysis", TRUE, o.outcome, {}, {},
                          o.clustered, {})
    /\ clock' = clock + 1
    /\ UNCHANGED <<kmo, barlett_p, has_no_impute, max_factors>>
    /\ UNCHANGED <<bootVars, fnVars, repVars>>

\* Results.run_HCA_analysis: self.HCA.run(self.data, self.EFA), rerun
\* left at its default True
RunHCAAnalysis ==
    /\ clock < MaxOps
    /\ \E o \in {HCA_run(OldHCA(hca), results, TRUE, "new")} :
           /\ hca' = o.hca
           /\ last' = Log("run_HCA_analysis", TRUE, o.outcome, {}, {},
                          o.clustered, {})
    /\ clock' = clock + 1
    /\ UNCHANGED <<kmo, barlett_p, has_no_impute, results, max_factors>>
    /\ UNCHANGED <<bootVars, fnVars, repVars>>

\* The counts the external criteria of a call return: one per criterion
\* the call evaluates
CountsFor(ms) == [ms -> 1..MaxCount]

\* The criteria get_dimensionality(metrics) evaluates on this session
Evaluated(metrics) ==
    IF has_no_impute THEN metrics ELSE metrics \ {"CV"}

\* A run that performs no selection is given no counts; a run that stops
\* at the adequacy assertion reaches neither the selection nor the
\* extraction.
Selects(rerun) ==
    Adequate(kmo, barlett_p) /\ NeedDimensionality(results, rerun)

EFARun ==
    \E rerun \in BOOLEAN :
       \E fit_ok \in IF Adequate(kmo, barlett_p) THEN BOOLEAN ELSE {TRUE} :
          \E cnt \in CountsFor(IF Selects(rerun) THEN DefaultMetrics
                               ELSE {}) :
             Run(rerun, cnt, fit_ok)

EFAGetDimensionality ==
    \E metrics \in MetricSets :
       \E cnt \in CountsFor(Evaluated(metrics)) :
          GetDimensionality(metrics, cnt)

SessionNext ==
    \/ EFARun
    \/ EFAGetDimensionality
    \/ HCARun(FALSE)
    \/ RunHCAAnalysis

\* ------------------------------------------------------ the bootstrap
IDs == {id \in 0..(MaxIDs - 1) : id < 2 ^ ID_BITS}

Finished == {"saved", "failed"}

\* reduce_boot_files has not been called
NoReduce == [outcome |-> "none", n |-> 0, quiet |-> FALSE]

BootIdle ==
    /\ pc = "init"
    /\ reps = 0
    /\ run_HCA = TRUE
    /\ task = <<>>
    /\ tid = EmptyMap
    /\ worker = [w \in 1..NWorkers |-> 0]
    /\ files = EmptyMap
    /\ reduced = NoReduce

\* run_bootstrap, lines 275-280: the resample is analysed by a fresh
\* EFA_Analysis(boot_data) and, with run_HCA, a fresh HCA_Analysis;
\* k, p are the resample's adequacy statistics
boot_outcome(h, k, p, cnt, fit_ok) ==
    Only({IF e.outcome # "ok" \/ ~h THEN e.outcome
          ELSE HCA_run(EmptyMap, e.results, TRUE, "new").outcome :
          e \in {run(EmptyResults, 0, FALSE, k, p, FALSE, cnt, fit_ok,
                     "new")}})

\* open(path.join(save_dir, filename), 'wb'): the file is created, or
\* truncated if it exists; i now writes to it
open_wb(f, id, i, h) ==
    Put(f, id,
        [state |-> IF id \in DOMAIN f /\ f[id].writers # {}
                   THEN "corrupt" ELSE "partial",
         owner |-> i, has_HCA |-> h,
         writers |-> (IF id \in DOMAIN f THEN f[id].writers ELSE {})
                        \cup {i}])

\* pickle.dump has written all of boot_run
dump_done(f, id, i) ==
    [f EXCEPT ![id].writers = @ \ {i},
              ![id].state = IF @ = "partial" /\ f[id].owner = i
                            THEN "complete" ELSE "corrupt"]

\* pickle.dump raised part-way
dump_failed(f, id, i) == [f EXCEPT ![id].writers = @ \ {i}]

\* (mutant) the call ends once every repetition has been handed out
MapReady_dispatched == \A i \in DOMAIN task : task[i] # "pending"

\* pool.map, line 293: the call ends once every repetition has ended
MapReady == \A i \in DOMAIN task : task[i] \in Finished

\* run_parallel_boot(reps, save_dir, run_HCA): pool.map dispatches reps
\* calls of bootstrap_wrapper
RunParallelBoot(n, h) ==
    /\ pc = "init"
    /\ pc' = "map"
    /\ reps' = n
    /\ run_HCA' = h
    /\ task' = [i \in 1..n |-> "pending"]
    /\ UNCHANGED <<tid, worker, files, reduced>>
    /\ UNCHANGED <<sessionVars, fnVars, repVars>>

\* an idle pool process takes the next repetition; the pool's processes
\* outlive a pool.map that raised (nothing closes or terminates the pool).
\* The processes are interchangeable: of the idle ones, the first takes it.
WorkerTake(w) ==
    /\ pc \in {"map", "raised"}
    /\ worker[w] = 0
    /\ \A v \in 1..(w - 1) : worker[v] # 0
    /\ \E i \in DOMAIN task :
          /\ task[i] = "pending"
          /\ \A j \in DOMAIN task : task[j] = "pending" => i <= j
          /\ task' = [task EXCEPT ![i] = "running"]
          /\ worker' = [worker EXCEPT ![w] = i]
    /\ UNCHANGED <<pc, reps, run_HCA, tid, files, reduced>>
    /\ UNCHANGED <<sessionVars, fnVars, repVars>>

\* run_bootstrap, lines 275-280
BootCompute(w, k, p, cnt, fit_ok) ==
    /\ worker[w] # 0
    /\ task[worker[w]] = "running"
    /\ IF boot_outcome(run_HCA, k, p, cnt, fit_ok) = "ok"
       THEN /\ task' = [task EXCEPT ![worker[w]] = "computed"]
            /\ worker' = worker
       ELSE /\ task' = [task EXCEPT ![worker[w]] = "failed"]
            /\ worker' = [worker EXCEPT ![w] = 0]
    /\ UNCHANGED <<pc, reps, run_HCA, tid, files, reduced>>
    /\ UNCHANGED <<sessionVars, fnVars, repVars>>

\* run_bootstrap, lines 282-285: the ID is drawn and the file opened
BootOpen(w, id) ==
    /\ worker[w] # 0
    /\ task[worker[w]] = "computed"
    /\ tid' = Put(tid, worker[w], id)
    /\ files' = open_wb(files, id, worker[w], run_HCA)
    /\ task' = [task EXCEPT ![worker[w]] = "opened"]
    /\ UNCHANGED <<pc, reps, run_HCA, worker, reduced>>
    /\ UNCHANGED <<sessionVars, fnVars, repVars>>

\* run_bootstrap, line 284: pickle.dump writes the file, or raises
BootDump(w, ok) ==
    /\ worker[w] # 0
    /\ task[worker[w]] = "opened"
    /\ files' = IF ok THEN dump_done(files, tid[worker[w]], worker[w])
                ELSE dump_failed(files, tid[worker[w]], worker[w])
    /\ task' = [task EXCEPT ![worker[w]] = IF ok THEN "saved" ELSE "failed"]
    /\ worker' = [worker EXCEPT ![w] = 0]
    /\ UNCHANGED <<pc, reps, run_HCA, tid, reduced>>
    /\ UNCHANGED <<sessionVars, fnVars, repVars>>

\* pool.map, line 293, returns: every repetition has ended, none raised
MapReturn ==
    /\ pc = "map"
    /\ MapReady
    /\ \A i \in DOMAIN task : task[i] # "failed"
    /\ pc' = "close"
    /\ UNCHANGED <<reps, run_HCA, task, tid, worker, files, reduced>>
    /\ UNCHANGED <<sessionVars, fnVars, repVars>>

\* pool.map, line 293, re-raises the exception of a repetition and
\* run_parallel_boot ends there; whether the pool library waits for the
\* other repetitions before it raises depends on its version, so the
\* raise is possible from the first failure on
MapRaise ==
    /\ pc = "map"
    /\ \E i \in DOMAIN task : task[i] = "failed"
    /\ pc' = "raised"
    /\ UNCHANGED <<reps, run_HCA, task, tid, worker, files, reduced>>
    /\ UNCHANGED <<sessionVars, fnVars, repVars>>

\* pool.close(), line 294
PoolClose ==
    /\ pc = "close"
    /\ pc' = "join"
    /\ UNCHANGED <<reps, run_HCA, task, tid, worker, files, reduced>>
    /\ UNCHANGED <<sessionVars, fnVars, repVars>>

\* pool.join(), line 295, and the return
PoolJoin ==
    /\ pc = "join"
    /\ \A w \in DOMAIN worker : worker[w] = 0
    /\ pc' = "returned"
    /\ UNCHANGED <<reps, run_HCA, task, tid, worker, files, reduced>>
    /\ UNCHANGED <<sessionVars, fnVars, repVars>>

\* reduce_boot, lines 298-299: boot_run['HCA'] raises KeyError for a run
\* without HCA
reduce_keys(boot_run) == IF boot_run.has_HCA THEN "ok" ELSE "KeyError"

\* reduce_boot_files, lines 311-313, on one file: pickle.load raises on
\* a file that does not hold one whole pickle; of the run a file holds,
\* the pool's files record only whether it has an 'HCA' entry
reduce_file(file) ==
    IF file.state # "complete" THEN "EOFError" ELSE reduce_keys(file)

\* reduce_boot_files(boot_loc): the files are visited in glob's order and
\* the first exception ends the call
ReduceBootFiles ==
    /\ pc # "init"
    /\ \E o \in {"ok"} \cup {reduce_file(files[id]) : id \in DOMAIN files} :
          /\ o = "ok" => \A id \in DOMAIN files : reduce_file(files[id]) = "ok"
          /\ reduced' = [outcome |-> o,
                         n |-> IF o = "ok" THEN Cardinality(DOMAIN files)
                               ELSE 0,
                         \* called after run_parallel_boot returned
                         quiet |-> (pc = "returned")]
    /\ UNCHANGED <<pc, reps, run_HCA, task, tid, worker, files>>
    /\ UNCHANGED <<sessionVars, fnVars, repVars>>

WorkerStep ==
    \E w \in 1..NWorkers :
       \/ WorkerTake(w)
       \/ \E k \in {KMO_MIN, KMO_MIN + 1}, fit_ok \in BOOLEAN :
             BootCompute(w, k, P_MAX - 1, [m \in DefaultMetrics |-> 1], fit_ok)
       \/ \E id \in IDs : BootOpen(w, id)
       \/ \E ok \in BOOLEAN : BootDump(w, ok)

CallerStep ==
    \/ \E n \in 0..MaxReps, h \in BOOLEAN : RunParallelBoot(n, h)
    \/ MapReturn
    \/ MapRaise
    \/ PoolClose
    \/ PoolJoin

BootNext == WorkerStep \/ CallerStep \/ ReduceBootFiles

\* ------------------------------- bootstrap repetitions called directly
\* no analysis object
NoObject == [id |-> 0]

\* no bundle
NoRun == [has_HCA |-> FALSE, data |-> <<>>, EFA |-> NoObject]

NoBoot == [op |-> "none", n |-> 0, outcome |-> "none", run_HCA |-> FALSE,
           save |-> FALSE, id |-> 0, ret |-> "none", data |-> <<>>,
           EFA |-> NoObject, HCA |-> NoObject, boot_run |-> NoRun]

NoSummary == [outcome |-> "none", keys |-> {}, metric_cs |-> EmptyMap,
              factor_solutions |-> EmptyMap, HCA_solutions |-> EmptyMap]

\* reduce_boot has not been called
NoReduced == [n |-> 0, results |-> NoSummary]

\* Results.__init__: the dataset; self.EFA is the first analysis object
\* constructed and self.HCA the second
RepIdle ==
    /\ data = [i \in 1..NRows |-> i]
    /\ objs = 2
    /\ boots = <<>>
    /\ boot = NoBoot
    /\ summary = NoReduced

\* the row of the dataset drawn for each row of a resample; a resample is
\* taken up to the order of its rows (no step looks at the order), so the
\* draws are listed in the order of the dataset
Draws(d) ==
    {idx \in [1..Len(d) -> 1..Len(d)] :
        \A i, j \in 1..Len(d) : i < j => idx[i] <= idx[j]}

\* (mutant) the resample is one row short
gen_resample_data_short(d, idx) == [i \in 1..(Len(d) - 1) |-> d[idx[i]]]

\* gen_resample_data: self.data.sample(self.data.shape[0], replace=True)
gen_resample_data(d, idx) == [i \in 1..Len(d) |-> d[idx[i]]]

\* boot_data=None: the default draws a resample (lines 261-262, 268-269);
\* given holds the boot_data argument, if any
boot_data_or(given, d, idx) ==
    IF given = {} THEN gen_resample_data(d, idx) ELSE Only(given)

\* run_EFA_bootstrap: EFA_Analysis(boot_data) is a new object, without
\* data_no_impute, and run() is called on it; o counts the objects
\* constructed before the call
run_EFA_bootstrap(d, given, idx, o, k, p, cnt, fit_ok) ==
    Only({[outcome |-> e.outcome, objs |-> o + 1, data |-> bd,
           EFA |-> [id |-> o + 1, data |-> bd, results |-> e.results,
                    max_factors |-> e.max_factors]] :
          e \in {run(EmptyResults, 0, FALSE, k, p, FALSE, cnt, fit_ok,
                     "new")},
          bd \in {boot_data_or(given, d, idx)}})

\* run_HCA_bootstrap: HCA_Analysis(self.dist_metric) is a new object and
\* run(boot_data, EFA) is called on it
run_HCA_bootstrap(d, EFA, given, idx, o) ==
    Only({[outcome |-> c.outcome, objs |-> o + 1, data |-> bd,
           HCA |-> [id |-> o + 1, results |-> c.hca]] :
          c \in {HCA_run(EmptyMap, EFA.results, TRUE, "new")},
          bd \in {boot_data_or(given, d, idx)}})

\* (mutant) the bundle is returned whether or not it was saved
boot_return_always(save) == "boot_run"

\* run_bootstrap, lines 281-287: with a save_dir the function ends without
\* a return statement
boot_return(save) == IF save THEN "None" ELSE "boot_run"

\* run_bootstrap, lines 275-280: the resample, its EFA and, with run_HCA,
\* its HCA, collected in boot_run
boot_fit(d, o, h, idx, k, p, cnt, fit_ok) ==
    Only({IF e.outcome # "ok"
          THEN [outcome |-> e.outcome, objs |-> e.objs, data |-> e.data,
                EFA |-> e.EFA, HCA |-> NoObject, boot_run |-> NoRun]
          ELSE IF ~h
          THEN [outcome |-> "ok", objs |-> e.objs, data |-> e.data,
                EFA |-> e.EFA, HCA |-> NoObject,
                boot_run |-> [has_HCA |-> FALSE, data |-> e.data,
                              EFA |-> e.EFA]]
          ELSE Only({[outcome |-> c.outcome, objs |-> c.objs,
                      data |-> e.data, EFA |-> e.EFA, HCA |-> c.HCA,
                      boot_run |-> [has_HCA |-> TRUE, data |-> e.data,
                                    EFA |-> e.EFA, HCA |-> c.HCA]] :
                     c \in {run_HCA_bootstrap(d, e.EFA, {e.data}, idx,
                                              e.objs)}}) :
          e \in {run_EFA_bootstrap(d, {gen_resample_data(d, idx)}, idx, o,
                                   k, p, cnt, fit_ok)}})

\* run_bootstrap, lines 281-287: n is the number of the repetition, id the
\* value of random.getrandbits(16); pickle.dump may raise
boot_save(x, f, n, save, id, dump_ok) ==
    IF x.outcome # "ok"
    THEN [fit |-> x, outcome |-> x.outcome, files |-> f, id |-> 0,
          ret |-> "raised"]
    ELSE IF ~save
    THEN [fit |-> x, outcome |-> "ok", files |-> f, id |-> 0,
          ret |-> boot_return(save)]
    ELSE IF dump_ok
    THEN [fit |-> x, outcome |-> "ok",
          files |-> dump_done(open_wb(f, id, n, x.boot_run.has_HCA), id, n),
          id |-> id, ret |-> boot_return(save)]
    ELSE [fit |-> x, outcome |-> "PicklingError",
          files |-> dump_failed(open_wb(f, id, n, x.boot_run.has_HCA),
                                id, n),
          id |-> id, ret |-> "raised"]

\* run_bootstrap(run_HCA, save_dir) on the dataset d and the directory f
run_bootstrap(d, f, o, n, h, save, idx, k, p, cnt, fit_ok, id, dump_ok) ==
    Only({boot_save(x, f, n, save, id, dump_ok) :
          x \in {boot_fit(d, o, h, idx, k, p, cnt, fit_ok)}})

\* the loading matrix EFA.results['factor_tree'][i]
loadings(r, i) == [of |-> "factor_tree", c |-> i, obj |-> r.factor_tree[i]]

\* reduce_boot(boot_run): the summary of one run
reduce_boot(boot_run) ==
    IF reduce_keys(boot_run) # "ok"
    THEN [NoSummary EXCEPT !.outcome = reduce_keys(boot_run)]
    ELSE Only({
      IF \E m \in DOMAIN cs : ~r.has_tree \/ cs[m] \notin DOMAIN r.factor_tree
      THEN [NoSummary EXCEPT !.outcome = "KeyError"]
      ELSE [outcome |-> "ok",
            keys |-> {"metric_cs", "factor_solutions", "HCA_solutions"},
            metric_cs |-> cs,
            factor_solutions |->
               [i \in {cs[m] : m \in DOMAIN cs} |-> loadings(r, i)],
            HCA_solutions |-> boot_run.HCA.results] :
      cs \in {get_metric_cs(boot_run.EFA.results)},
      r \in {boot_run.EFA.results}})

\* the objects a repetition constructed
Made(x) == [EFA |-> x.EFA.id, HCA |-> x.HCA.id]

\* the resample's statistics and what the external routines return for it:
\* counts and a failing extraction only for a resample that gets that far
BootInputs(k, p, cnt, fit_ok, cnts) ==
    /\ k \in {KMO_MIN, KMO_MIN + 1}
    /\ p = P_MAX - 1
    /\ IF Adequate(k, p)
       THEN cnt \in cnts /\ fit_ok \in BOOLEAN
       ELSE cnt = [m \in DefaultMetrics |-> 1] /\ fit_ok

\* Results.run_bootstrap(run_HCA=h, save_dir=...)
RunBootstrap(h, save, idx, k, p, cnt, fit_ok, id, dump_ok) ==
    /\ Len(boots) < MaxBoots
    /\ \E o \in {run_bootstrap(data, files, objs, Len(boots) + 1, h, save,
                               idx, k, p, cnt, fit_ok, id, dump_ok)} :
          \* the identifier is drawn, and the dump can fail, only in a
          \* call that gets to saving
          /\ (id = 0 /\ dump_ok) \/ (save /\ o.fit.outcome = "ok")
          /\ files' = o.files
          /\ objs' = o.fit.objs
          /\ boots' = Append(boots, Made(o.fit))
          /\ boot' = [op |-> "run_bootstrap", n |-> Len(boots) + 1,
                      outcome |-> o.outcome, run_HCA |-> h, save |-> save,
                      id |-> o.id, ret |-> o.ret, data |-> o.fit.data,
                      EFA |-> o.fit.EFA, HCA |-> o.fit.HCA,
                      boot_run |-> o.fit.boot_run]
    /\ UNCHANGED <<data, summary>>
    /\ UNCHANGED <<pc, reps, run_HCA, task, tid, worker, reduced>>
    /\ UNCHANGED <<sessionVars, fnVars>>

\* Results.run_EFA_bootstrap() with boot_data left at None
RunEFABootstrap(idx, k, p, cnt, fit_ok) ==
    /\ Len(boots) < MaxBoots
    /\ \E o \in {run_EFA_bootstrap(data, {}, idx, objs, k, p, cnt, fit_ok)} :
          /\ objs' = o.objs
          /\ boots' = Append(boots, [EFA |-> o.EFA.id, HCA |-> 0])
          /\ boot' = [NoBoot EXCEPT !.op = "run_EFA_bootstrap",
                                    !.n = Len(boots) + 1,
                                    !.outcome = o.outcome,
                                    !.ret = IF o.outcome = "ok"
                                            THEN "EFA_boot" ELSE "raised",
                                    !.data = o.data,
                                    !.EFA = o.EFA]
    /\ UNCHANGED <<data, summary>>
    /\ UNCHANGED bootVars
    /\ UNCHANGED <<sessionVars, fnVars>>

\* Results.run_HCA_bootstrap(EFA) with boot_data left at None; EFA is the
\* session's own EFA or the one the last repetition returned
RunHCABootstrap(own, idx) ==
    /\ Len(boots) < MaxBoots
    /\ own \/ (boot.outcome = "ok" /\ boot.EFA.id # 0)
    /\ \E o \in {run_HCA_bootstrap(
                    data,
                    IF own THEN [id |-> 1, results |-> results] ELSE boot.EFA,
                    {}, idx, objs)} :
          /\ objs' = o.objs
          /\ boots' = Append(boots, [EFA |-> 0, HCA |-> o.HCA.id])
          /\ boot' = [NoBoot EXCEPT !.op = "run_HCA_bootstrap",
                                    !.n = Len(boots) + 1,
                                    !.outcome = o.outcome,
                                    !.run_HCA = TRUE,
                                    !.ret = IF o.outcome = "ok"
                                            THEN "HCA_boot" ELSE "raised",
                                    !.data = o.data,
                                    !.HCA = o.HCA]
    /\ UNCHANGED <<data, summary>>
    /\ UNCHANGED bootVars
    /\ UNCHANGED <<sessionVars, fnVars>>

\* Results.reduce_boot(boot_run) on the run the last run_bootstrap call
\* returned, or saved (pickle.load gives back what pickle.dump wrote)
ReduceBoot ==
    /\ boot.op = "run_bootstrap" /\ boot.outcome = "ok"
    /\ summary.n # boot.n
    /\ summary' = [n |-> boot.n, results |-> reduce_boot(boot.boot_run)]
    /\ UNCHANGED <<data, objs, boots, boot>>
    /\ UNCHANGED bootVars
    /\ UNCHANGED <<sessionVars, fnVars>>

\* both default criteria choose one factor
One == [m \in DefaultMetrics |-> 1]

RepBootstrap ==
    \E h \in BOOLEAN, save \in BOOLEAN, idx \in Draws(data) :
       \E k \in {KMO_MIN, KMO_MIN + 1}, fit_ok \in BOOLEAN :
          /\ BootInputs(k, P_MAX - 1, One, fit_ok, {One})
          /\ RunBootstrap(h, save, idx, k, P_MAX - 1, One, fit_ok, 0, TRUE)

RepEFABootstrap ==
    \E idx \in Draws(data), k \in {KMO_MIN, KMO_MIN + 1}, fit_ok \in BOOLEAN :
       /\ BootInputs(k, P_MAX - 1, One, fit_ok, {One})
       /\ RunEFABootstrap(idx, k, P_MAX - 1, One, fit_ok)

RepHCABootstrap ==
    \E own \in BOOLEAN, idx \in Draws(data) : RunHCABootstrap(own, idx)

RepNext ==
    \/ RepBootstrap
    \/ RepEFABootstrap
    \/ RepHCABootstrap

SaveBootstrap ==
    \E h \in BOOLEAN, save \in BOOLEAN, idx \in Draws(data) :
       \E k \in {KMO_MIN, KMO_MIN + 1}, fit_ok \in BOOLEAN :
          \E id \in IDs, dump_ok \in BOOLEAN :
             /\ BootInputs(k, P_MAX - 1, One, fit_ok, {One})
             /\ RunBootstrap(h, save, idx, k, P_MAX - 1, One, fit_ok, id,
                             dump_ok)

SaveNext == SaveBootstrap

ReduceBootstrap ==
    \E h \in BOOLEAN, save \in BOOLEAN, idx \in Draws(data) :
       \E k \in {KMO_MIN, KMO_MIN + 1}, fit_ok \in BOOLEAN :
          \E cnt \in CountsFor(DefaultMetrics) :
             /\ BootInputs(k, P_MAX - 1, cnt, fit_ok,
                           CountsFor(DefaultMetrics))
             /\ RunBootstrap(h, save, idx, k, P_MAX - 1, cnt, fit_ok, 0,
                             TRUE)

ReduceNext == ReduceBootstrap \/ ReduceBoot

\* ------------------------------------- get_nesting_matrix and the
\* ------------------------------------- null entropy sample
\* per-factor scores in tenths: at the threshold, just above it, and 1
ScoreVals == {EXPLAINED_THRESHOLD, EXPLAINED_THRESHOLD + 1, 10}

\* the keys of lower_nesting for a tree of n counts: all low < high
Pairs(n) == {key \in (1..n) \X (1..n) : key[1] < key[2]}

\* one score per factor of the low solution of every pair
ScoreSlots(n) == {<<key, i>> : key \in Pairs(n), i \in 1..n} \cap
                 {<<key, i>> \in Pairs(n) \X (1..n) : i <= key[1]}

\* quantify_lower_nesting(factor_tree): key -> [scores |-> ...]
quantify_lower_nesting(n, sc) ==
    [key \in Pairs(n) |-> [scores |-> [i \in 1..key[1] |-> sc[<<key, i>>]]]]

\* a real number num/den in tenths, or NaN
Frac(num, den) == [nan |-> FALSE, num |-> num, den |-> den]

NaN == [nan |-> TRUE, num |-> 0, den |-> 1]

RECURSIVE SumOver(_, _)
SumOver(f, S) ==
    IF S = {} THEN 0
    ELSE LET i == CHOOSE x \in S : TRUE IN f[i] + SumOver(f, S \ {i})

\* (mutant) a score at the threshold counts as adequately explained
adequately_explained_inclusive(scores, threshold) ==
    {i \in DOMAIN scores : scores[i] >= threshold}

\* line 171: adequately_explained = r['scores'] > explained_threshold
adequately_explained(scores, threshold) ==
    {i \in DOMAIN scores : scores[i] > threshold}

\* line 172: np.mean of the selected scores; NaN for an empty selection
np_mean(scores, sel) ==
    IF sel = {} THEN NaN ELSE Frac(SumOver(scores, sel), Cardinality(sel))

\* (mutant) NaN is left in place
nan_kept(x) == x

\* line 173: if np.isnan(explained_score): explained_score = 0
nan_to_zero(x) == IF x.nan THEN Frac(0, 1) ELSE x

\* lines 167-168: the two arrays have len(tree) rows, len(tree)-1 columns
Shape(n) == (0..(n - 1)) \X (0..(n - 2))

\* (mutant) row from the low count, column from the high count
cell_low_high(key) == <<key[1] - 1, key[2] - 1>>

\* lines 174-175: the index [key[1]-1, key[0]-1] (Python counts the
\* components of key from 0: key[0] is low, key[1] is high)
cell(key) == <<key[2] - 1, key[1] - 1>>

\* line 172-173, for one key
explained_score(r, threshold) ==
    nan_to_zero(np_mean(r.scores, adequately_explained(r.scores, threshold)))

\* line 175: np.sum(adequately_explained / key[0])
sum_explained(r, key, threshold) ==
    Frac(10 * Cardinality(adequately_explained(r.scores, threshold)), key[1])

NoNesting == [outcome |-> "none", explained_scores |-> <<>>,
              sum_explained |-> <<>>]

\* get_nesting_matrix(explained_threshold): an index outside an array
\* raises IndexError; every key writes one cell of each array
get_nesting_matrix(n, ln, threshold) ==
    IF \E key \in DOMAIN ln : cell(key) \notin Shape(n)
    THEN [NoNesting EXCEPT !.outcome = "IndexError"]
    ELSE [outcome |-> "ok",
          explained_scores |->
             [x \in Shape(n) |->
                IF \E key \in DOMAIN ln : cell(key) = x
                THEN explained_score(
                        ln[CHOOSE key \in DOMAIN ln : cell(key) = x],
                        threshold)
                ELSE Frac(-10, 1)],
          sum_explained |->
             [x \in Shape(n) |->
                IF \E key \in DOMAIN ln : cell(key) = x
                THEN sum_explained(
                        ln[CHOOSE key \in DOMAIN ln : cell(key) = x],
                        CHOOSE key \in DOMAIN ln : cell(key) = x,
                        threshold)
                ELSE Frac(0, 1)]]

\* (mutant) each repetition's entropies replace the sample
np_replace(sample, values) == values

\* line 107: permuted_entropies = np.append(permuted_entropies, values)
np_append(sample, values) == sample \o values

\* lines 100-108: one entropy per variable in each of reps repetitions
RECURSIVE null_loop(_, _, _, _)
null_loop(k, n_reps, nv, sample) ==
    IF k > n_reps THEN sample
    ELSE null_loop(k + 1, n_reps, nv,
                   np_append(sample, [v \in 1..nv |-> <<k, v>>]))

NoSample == [c |-> 0, reps |-> 0, outcome |-> "none", sample |-> <<>>]

\* get_null_loading_entropy(c, reps) on a tree of n counts
get_null_loading_entropy(c, n_reps, n, nv) ==
    IF ~(c > 1)
    THEN [c |-> c, reps |-> n_reps, outcome |-> "AssertionError",
          sample |-> <<>>]
    ELSE IF c \notin 1..n
    THEN [c |-> c, reps |-> n_reps, outcome |-> "KeyError", sample |-> <<>>]
    ELSE [c |-> c, reps |-> n_reps, outcome |-> "ok",
          sample |-> null_loop(1, n_reps, nv, <<>>)]

FnIdle ==
    /\ tree_len = 1
    /\ n_vars = 1
    /\ lower_nesting = quantify_lower_nesting(1, <<>>)
    /\ nesting = NoNesting
    /\ null_out = NoSample

\* a session after a run: a tree of tree_len counts and the lower_nesting
\* computed from it, with any scores
NestInputs ==
    /\ tree_len \in 1..MaxTree
    /\ n_vars = 1
    /\ \E sc \in [ScoreSlots(tree_len) -> ScoreVals] :
          lower_nesting = quantify_lower_nesting(tree_len, sc)
    /\ nesting = NoNesting
    /\ null_out = NoSample

\* a session after a run: a tree of tree_len counts over n_vars variables
NullInputs ==
    /\ tree_len \in 1..MaxTree
    /\ n_vars \in 1..MaxVars
    /\ lower_nesting
          = quantify_lower_nesting(tree_len,
                                   [x \in ScoreSlots(tree_len) |-> 10])
    /\ nesting = NoNesting
    /\ null_out = NoSample

GetNestingMatrix ==
    /\ nesting' = get_nesting_matrix(tree_len, lower_nesting,
                                     EXPLAINED_THRESHOLD)
    /\ UNCHANGED <<tree_len, n_vars, lower_nesting, null_out>>
    /\ UNCHANGED <<sessionVars, bootVars, repVars>>

NullReps == (0..MaxNullReps) \cup {DEFAULT_REPS}

GetNullLoadingEntropy(c, n_reps) ==
    /\ null_out' = get_null_loading_entropy(c, n_reps, tree_len, n_vars)
    /\ UNCHANGED <<tree_len, n_vars, lower_nesting, nesting>>
    /\ UNCHANGED <<sessionVars, bootVars, repVars>>

NestNext == GetNestingMatrix

NullNext ==
    \E c \in 0..(MaxTree + 1), n_reps \in NullReps :
       GetNullLoadingEntropy(c, n_reps)

\* ------------------------------------------------- the specifications
vars == <<sessionVars, bootVars, fnVars, repVars>>

\* one session, called in any order
Init == SessionInit /\ BootIdle /\ FnIdle /\ RepIdle

Next == SessionNext

Spec == Init /\ [][Next]_vars

\* one run_parallel_boot call on a fresh session and an empty save_dir,
\* with reduce_boot_files called at any time
BootInit ==
    /\ SessionInit
    /\ kmo = KMO_MIN + 1
    /\ barlett_p = P_MAX - 1
    /\ has_no_impute
    /\ BootIdle
    /\ FnIdle
    /\ RepIdle

BootSpec == BootInit /\ [][BootNext]_vars

\* get_nesting_matrix called on a session that holds a factor tree and
\* its lower_nesting
NestInit ==
    /\ SessionInit
    /\ kmo = KMO_MIN + 1
    /\ barlett_p = P_MAX - 1
    /\ has_no_impute
    /\ BootIdle
    /\ NestInputs
    /\ RepIdle

NestSpec == NestInit /\ [][NestNext]_vars

\* get_null_loading_entropy called, with any c and reps, on a session
\* that holds a factor tree
NullInit ==
    /\ SessionInit
    /\ kmo = KMO_MIN + 1
    /\ barlett_p = P_MAX - 1
    /\ has_no_impute
    /\ BootIdle
    /\ NullInputs
    /\ RepIdle

NullSpec == NullInit /\ [][NullNext]_vars

\* the session after run_EFA_analysis() and run_HCA_analysis() on a new
\* Results object
Analysed ==
    \E e \in {run(EmptyResults, 0, TRUE, KMO_MIN + 1, P_MAX - 1, FALSE, One,
                  TRUE, "new")} :
       /\ results = e.results
       /\ max_factors = e.max_factors
       /\ hca = HCA_run(EmptyMap, e.results, TRUE, "new").hca

\* bootstrap repetitions called one after the other on a session that is
\* new or has run its own analyses
RepInit ==
    /\ kmo = KMO_MIN + 1
    /\ barlett_p = P_MAX - 1
    /\ has_no_impute = TRUE
    /\ \/ results = EmptyResults /\ max_factors = 0 /\ hca = EmptyMap
       \/ Analysed
    /\ clock = 0
    /\ last = NoLog
    /\ BootIdle
    /\ FnIdle
    /\ RepIdle

RepSpec == RepInit /\ [][RepNext]_vars

\* a session with a dataset of one row
OneRow ==
    /\ SessionInit
    /\ kmo = KMO_MIN + 1
    /\ barlett_p = P_MAX - 1
    /\ has_no_impute
    /\ BootIdle
    /\ FnIdle
    /\ data = <<1>>
    /\ objs = 2
    /\ boots = <<>>
    /\ boot = NoBoot
    /\ summary = NoReduced

\* run_bootstrap called one after the other, with and without a save_dir
SaveSpec == OneRow /\ [][SaveNext]_vars

\* run_bootstrap called one after the other and reduce_boot called on the
\* run of the last call
ReduceSpec == OneRow /\ [][ReduceNext]_vars

\* the pool's processes and the caller are scheduled by the OS: a step
\* that stays possible is taken
FairBootSpec ==
    /\ BootSpec
    /\ WF_vars(WorkerStep)
    /\ WF_vars(CallerStep)

\* ------------------------------------------------------------- claims
\* a step that is a call (a stuttering step is not)
Called(op) == clock' = clock + 1 /\ last'.op = op

SavedReps == {i \in DOMAIN task : task[i] = "saved"}

FailedReps == {i \in DOMAIN task : task[i] = "failed"}

\* C1: when run_parallel_boot has returned, the repetitions that completed
\* have pairwise distinct identifiers and save_dir holds one file per
\* completed repetition.
C1_DistinctIdentifiers ==
    pc = "returned" =>
        /\ \A i, j \in SavedReps : i # j => tid[i] # tid[j]
        /\ Cardinality(DOMAIN files) = Cardinality(SavedReps)

\* C2: HCA_Analysis.run(rerun=False) leaves a clustering that is already
\* stored under a key as it is (the raw-data key and every factor-loading
\* key), and computes the raw-data clustering when its key is absent.
C2_CacheHonoured ==
    [][(Called("HCA.run") /\ ~last'.rerun /\ last'.outcome = "ok") =>
          /\ \A k \in DOMAIN hca : hca'[k].obj = "old"
          /\ DataKey \in DOMAIN hca']_vars

\* the second of two EFA.run(rerun=False) calls in a row that both returned
SecondRun ==
    /\ last.op = "run" /\ ~last.rerun /\ last.outcome = "ok"
    /\ Called("run") /\ ~last'.rerun /\ last'.outcome = "ok"

SelectionSteps ==
    {<<"get_dimensionality", "">>, <<"fa_parallel", "parallel">>}
        \cup {<<"find_optimal_components", m>> : m \in Metrics}

ProfilingSteps ==
    {<<"quantify_lower_nesting", "">>, <<"get_loading_entropy", "">>,
     <<"get_null_loading_entropy", "">>}

C4_TreeExtended ==
    [][(/\ Called("run") /\ ~last'.rerun /\ last'.outcome = "ok"
        /\ results.has_tree
        /\ Len(results.factor_tree) < max_factors') =>
          /\ last'.extracted
                = (Len(results.factor_tree) + 1)..max_factors'
          /\ \A c \in 1..Len(results.factor_tree) :
                results'.factor_tree[c] = "old"]_vars

\* C5: when the KMO statistic is not above .6 or the Bartlett p-value is
\* not below .05, EFA.run raises at the adequacy assertion, having invoked
\* nothing but the adequacy test, and leaves results (no EFA_adequacy, no
\* counts, no factor tree), max_factors and HCA.results as they were.
C5_AdequacyGate ==
    [][(Called("run") /\ (kmo <= KMO_MIN \/ barlett_p >= P_MAX)) =>
          /\ last'.outcome = "AssertionError"
          /\ last'.calls = {<<"adequacy_test", "">>}
          /\ last'.extracted = {}
          /\ results' = OldResults(results)
          /\ max_factors' = max_factors
          /\ hca' = hca]_vars

\* C5 witness: a run that failed the adequacy check on a session that
\* already held counts and a max_factors
C5_Witness ==
    /\ last.op = "run" /\ last.outcome = "AssertionError"
    /\ kmo <= KMO_MIN
    /\ max_factors > 0
    /\ ~results.EFA_adequacy /\ ~results.has_tree

\* C6: when a repetition has failed, run_parallel_boot still returns
\* normally, every other repetition has persisted its file and the failed
\* repetition has left no file.
C6_ErrorConfined ==
    (pc \notin {"init", "map"} /\ FailedReps # {}) =>
        /\ pc \in {"close", "join", "returned"}
        /\ \A i \in DOMAIN task : i \notin FailedReps => task[i] = "saved"
        /\ \A id \in DOMAIN files : files[id].owner \notin FailedReps

\* C7: every file in save_dir holds one complete bootstrap run, in every
\* state, and reduce_boot_files never reads a partial one.
C7_FilesComplete ==
    /\ \A id \in DOMAIN files : files[id].state = "complete"
    /\ reduced.outcome # "EOFError"

C9_ReduceAll ==
    (reduced.quiet
       /\ \A id \in DOMAIN files : files[id].state = "complete") =>
        /\ reduced.outcome = "ok"
        /\ reduced.n = Cardinality(DOMAIN files)

\* C10: get_dimensionality asked for 'CV' on a session without
\* data_no_impute reports it, skips that criterion, stores every other
\* requested criterion and returns normally.
C10_MissingCVSkipped ==
    (last.op = "get_dimensionality" /\ "CV" \in last.metrics
       /\ ~has_no_impute) =>
        /\ last.outcome = "ok"
        /\ <<"print", "CV">> \in last.calls
        /\ "CV" \notin DOMAIN results.c
        /\ \A m \in last.metrics \ {"CV"} : m \in DOMAIN results.c

C12_PhaseErrorsConfined ==
    [][/\ (Called("run") /\ last'.outcome # "ok") => hca' = hca
       /\ (Called("run_HCA_analysis") /\ last'.outcome # "ok") =>
             /\ results' = results
             /\ max_factors' = max_factors]_vars

\* C12 witness: run_HCA_analysis has raised on a session that holds
\* factor-analysis results
C12_Witness ==
    /\ last.op = "run_HCA_analysis" /\ last.outcome = "KeyError"
    /\ DOMAIN get_metric_cs(results) # {}
    /\ max_factors > 0

\* C13: after a get_dimensionality(metrics) that returned, max_factors is 5
\* plus the largest count chosen by a criterion of metrics in that call;
\* counts stored by earlier calls for other criteria play no part.
C13_CeilingFromRequested ==
    (/\ last.op = "get_dimensionality" /\ last.outcome = "ok"
     /\ Evaluated(last.metrics) # {}) =>
        max_factors
            = SeqMax({results.c[m] : m \in Evaluated(last.metrics)}) + MARGIN

\* C14: a stored factor tree has the keys 1..maxC, it stays stored, and
\* maxC does not decrease in any call but a run with rerun=True.
C14_TreeNeverShrinks ==
    [][results.has_tree =>
          /\ results'.has_tree
          /\ DOMAIN results'.factor_tree = 1..Len(results'.factor_tree)
          /\ DOMAIN results'.factor_tree_Rout = DOMAIN results'.factor_tree
          /\ Len(results'.factor_tree) < Len(results.factor_tree) =>
                (Called("run") /\ last'.rerun)]_vars

\* C14 witness: a run(rerun=False) has returned on a session whose ceiling
\* had dropped below the stored tree's maxC
C14_Witness ==
    /\ last.op = "run" /\ ~last.rerun /\ last.outcome = "ok"
    /\ results.has_tree
    /\ Len(results.factor_tree) > max_factors
    /\ last.extracted = {}

\* C15: a run(rerun=True) that returns has run the extraction for every
\* count of 1..max_factors and stored a tree of newly computed entries
\* only; a run(rerun=False) on a tree that covers 1..max_factors runs the
\* extraction for no count and keeps the tree.
C15_RerunRebuildsAll ==
    [][(Called("run") /\ last'.outcome = "ok") =>
          /\ last'.rerun =>
                /\ last'.extracted = 1..max_factors'
                /\ Len(results'.factor_tree) = max_factors'
                /\ \A c \in 1..max_factors' : results'.factor_tree[c] = "new"
          /\ (/\ ~last'.rerun
              /\ results.has_tree
              /\ Len(results.factor_tree) >= max_factors') =>
                /\ last'.extracted = {}
                /\ <<"create_factor_tree", "">> \notin last'.calls
                /\ results'.factor_tree = Aged(results.factor_tree)]_vars

\* C15 witness: a run(rerun=True) has returned on a session that already
\* held a tree (built by the run(rerun=True) before it)
C15_Witness ==
    /\ last.op = "run" /\ last.rerun /\ last.outcome = "ok" /\ last.again
    /\ last.extracted = 1..max_factors
    /\ Len(results.factor_tree) = max_factors

\* C16: after a run that returned, entropies and null_entropies have an
\* entry for every count c > 1 of the stored factor tree, maxC included,
\* and for no other count.
C16_EntropiesCoverTree ==
    (last.op = "run" /\ last.outcome = "ok") =>
        /\ DOMAIN results.entropies
              = {c \in DOMAIN results.factor_tree : c > 1}
        /\ DOMAIN results.null_entropies
              = {c \in DOMAIN results.factor_tree : c > 1}

\* the counts chosen by the criteria stored in EFA.results
ChosenCounts(r) == {get_metric_cs(r)[m] : m \in DOMAIN get_metric_cs(r)}

\* C17 as claimed: after a run_HCA_analysis that returned on a session
\* whose factor analysis has run, HCA.results holds the clustering of the
\* raw dataset, one clustering per chosen count, computed from the tree's
\* loading matrix at that count, and nothing else.
C17_OnlyChosenCounts ==
    (/\ last.op = "run_HCA_analysis" /\ last.outcome = "ok"
     /\ results.EFA_adequacy /\ results.has_tree) =>
        /\ DOMAIN hca = {DataKey} \cup {EFAKey(c) : c \in ChosenCounts(results)}
        /\ \A c \in ChosenCounts(results) : hca[EFAKey(c)].input = c

\* C17 as amended: a run_HCA_analysis that returns on a session whose
\* factor analysis has run computes and stores the clustering of the raw
\* dataset and one clustering per chosen count, from the tree's loading
\* matrix at that count; every other entry of HCA.results is one an
\* earlier call stored, kept as it was.
C17_ChosenCountsClustered ==
    [][(/\ Called("run_HCA_analysis") /\ last'.outcome = "ok"
        /\ results.EFA_adequacy /\ results.has_tree) =>
          /\ last'.clustered
                = {DataKey} \cup {EFAKey(c) : c \in ChosenCounts(results)}
          /\ last'.clustered \subseteq DOMAIN hca'
          /\ hca'[DataKey] = [obj |-> "new", input |-> 0]
          /\ \A c \in ChosenCounts(results) :
                hca'[EFAKey(c)] = [obj |-> "new", input |-> c]
          /\ DOMAIN hca' = DOMAIN hca \cup last'.clustered
          /\ \A k \in DOMAIN hca' \ last'.clustered :
                hca'[k] = [hca[k] EXCEPT !.obj = "old"]]_vars

\* C17 witness: run_HCA_analysis has returned on a session whose factor
\* analysis has run, leaving an entry for a count that is no longer chosen
C17_Witness ==
    /\ last.op = "run_HCA_analysis" /\ last.outcome = "ok"
    /\ results.EFA_adequacy /\ results.has_tree
    /\ ChosenCounts(results) # {}
    /\ \E k \in DOMAIN hca : k \notin last.clustered

\* the cells of explained_scores that hold a score (the array starts at -1)
Populated == {x \in DOMAIN nesting.explained_scores :
                nesting.explained_scores[x] # Frac(-10, 1)}

\* no score of the pair's low solution is above the threshold
NoneAdequate(key) ==
    \A i \in DOMAIN lower_nesting[key].scores :
       lower_nesting[key].scores[i] <= EXPLAINED_THRESHOLD

\* C18: with per-factor scores in [0, 1], the explained_score that
\* get_nesting_matrix computes for every pair of lower_nesting is a number
\* in [0, 1], and it is 0 when no score of the pair is above the threshold.
C18_ExplainedScoreInUnitInterval ==
    nesting.outcome = "ok" =>
        \A key \in DOMAIN lower_nesting :
           \E v \in {nesting.explained_scores[<<key[2] - 1, key[1] - 1>>]} :
              /\ ~v.nan
              /\ v.den > 0
              /\ 0 <= v.num /\ v.num <= 10 * v.den
              /\ NoneAdequate(key) => v.num = 0

\* C18 witness: get_nesting_matrix has returned for a tree with a pair
\* none of whose scores is above the threshold and a pair with one that is
C18_Witness ==
    /\ nesting.outcome = "ok"
    /\ \E key \in DOMAIN lower_nesting : NoneAdequate(key)
    /\ \E key \in DOMAIN lower_nesting : ~NoneAdequate(key)

\* C19 as claimed: get_nesting_matrix returns and has stored the aggregates
\* of every pair (low, high) at row low, column high; every populated cell
\* is strictly above the diagonal.
C19_UpperTriangular ==
    nesting.outcome # "none" =>
        /\ nesting.outcome = "ok"
        /\ Populated = {<<key[1] - 1, key[2] - 1>> : key \in DOMAIN lower_nesting}
        /\ \A x \in Populated : x[1] < x[2]

\* C19 as amended: get_nesting_matrix returns and has stored the
\* aggregates of every pair (low, high) at row high - 1, column low - 1
\* (counted from 0) of its len(tree) x (len(tree) - 1) arrays: every index
\* is within the bounds, every populated cell has its row index above its
\* column index, and the other cells keep -1 and 0.
C19_LowerTriangular ==
    nesting.outcome # "none" =>
        /\ nesting.outcome = "ok"
        /\ DOMAIN nesting.explained_scores
              = (0..(tree_len - 1)) \X (0..(tree_len - 2))
        /\ DOMAIN nesting.sum_explained = DOMAIN nesting.explained_scores
        /\ Populated = {<<key[2] - 1, key[1] - 1>> : key \in DOMAIN lower_nesting}
        /\ \A x \in Populated : x[1] > x[2]
        /\ \A x \in DOMAIN nesting.sum_explained \ Populated :
              nesting.sum_explained[x] = Frac(0, 1)
        /\ \A key \in DOMAIN lower_nesting :
              nesting.sum_explained[<<key[2] - 1, key[1] - 1>>].den = key[1]

\* C19 witness: get_nesting_matrix has returned for a tree of three or
\* more counts
C19_Witness ==
    /\ nesting.outcome = "ok"
    /\ tree_len >= 3
    /\ Cardinality(Populated) >= 3

\* C20: get_null_loading_entropy(c, reps) fails its assertion for c <= 1
\* and, for a count c > 1 of the tree, returns reps x (number of
\* variables) values, reps being 50 by default.
C20_NullSampleSize ==
    null_out.outcome # "none" =>
        /\ null_out.c <= 1 => null_out.outcome = "AssertionError"
        /\ (null_out.c > 1 /\ null_out.c <= tree_len) =>
              /\ null_out.outcome = "ok"
              /\ Len(null_out.sample) = null_out.reps * n_vars

\* C20 witness: the default 50 repetitions on more than one variable
C20_Witness ==
    /\ null_out.outcome = "ok"
    /\ null_out.reps = DEFAULT_REPS
    /\ n_vars > 1
    /\ Len(null_out.sample) = DEFAULT_REPS * n_vars

\* the scores of a pair's low solution that are above the threshold
AboveThreshold(key) ==
    {i \in DOMAIN lower_nesting[key].scores :
        lower_nesting[key].scores[i] > EXPLAINED_THRESHOLD}

\* C26: in the arrays get_nesting_matrix(explained_threshold) returns, the
\* explained_scores entry written for a pair is exactly 0 or strictly above
\* the threshold, the sum_explained entry written for a pair (low, high) is
\* the number of scores above the threshold divided by low, a number in
\* [0, 1], and every entry that belongs to no pair keeps its initial value
\* (-1 in explained_scores, 0 in sum_explained).
C26_EntriesZeroOrAboveThreshold ==
    nesting.outcome = "ok" =>
        /\ \A key \in DOMAIN lower_nesting :
              /\ \E v \in {nesting.explained_scores[<<key[2] - 1, key[1] - 1>>]} :
                    /\ ~v.nan /\ v.den > 0
                    /\ v.num = 0 \/ v.num > EXPLAINED_THRESHOLD * v.den
              /\ \E s \in {nesting.sum_explained[<<key[2] - 1, key[1] - 1>>]} :
                    /\ ~s.nan /\ s.den = key[1]
                    /\ s.num = 10 * Cardinality(AboveThreshold(key))
                    /\ 0 <= s.num /\ s.num <= 10 * s.den
        /\ \A x \in DOMAIN nesting.explained_scores :
              (\A key \in DOMAIN lower_nesting :
                  x # <<key[2] - 1, key[1] - 1>>) =>
                 /\ nesting.explained_scores[x] = Frac(-10, 1)
                 /\ nesting.sum_explained[x] = Frac(0, 1)

\* C26 witness: get_nesting_matrix has returned for a tree with a pair some
\* but not all of whose scores are above the threshold, one of them exactly
\* at the threshold, and with cells that belong to no pair
C26_Witness ==
    /\ nesting.outcome = "ok"
    /\ \E key \in DOMAIN lower_nesting :
          /\ AboveThreshold(key) # {}
          /\ \E i \in DOMAIN lower_nesting[key].scores :
                lower_nesting[key].scores[i] = EXPLAINED_THRESHOLD
          /\ nesting.sum_explained[<<key[2] - 1, key[1] - 1>>]
                = Frac(10, 2)
    /\ \E x \in DOMAIN nesting.explained_scores :
          nesting.explained_scores[x] = Frac(-10, 1)

\* C25: a run(rerun=False) that passes the adequacy check performs
\* model-order selection if and only if no parallel-analysis count is
\* stored, whatever counts are stored for BIC, SABIC and CV; when it does
\* not, the run leaves max_factors, every stored count and every stored
\* score curve as they were.
C25_SelectionIffNoParallel ==
    [][(/\ Called("run") /\ ~last'.rerun
        /\ kmo > KMO_MIN /\ barlett_p < P_MAX) =>
          /\ <<"get_dimensionality", "">> \in last'.calls
                <=> "parallel" \notin DOMAIN results.c
          /\ "parallel" \notin DOMAIN results.c =>
                {"BIC", "parallel"} \subseteq DOMAIN results'.c
          /\ "parallel" \in DOMAIN results.c =>
                /\ last'.calls \cap SelectionSteps = {}
                /\ max_factors' = max_factors
                /\ results'.c = results.c
                /\ results'.cscores = Aged(results.cscores)]_vars

\* C25 witness: a run(rerun=False) has returned without selection on a
\* session that holds a parallel-analysis count and no BIC count
C25_Witness ==
    /\ last.op = "run" /\ ~last.rerun /\ last.outcome = "ok"
    /\ last.calls \cap SelectionSteps = {}
    /\ "parallel" \in DOMAIN results.c
    /\ "BIC" \notin DOMAIN results.c

\* a run(rerun=False) has performed selection on a session that held a
\* count for another criterion only
SelectedDespiteOtherCounts ==
    /\ last.op = "run" /\ ~last.rerun /\ last.outcome = "ok"
    /\ <<"get_dimensionality", "">> \in last.calls
    /\ "SABIC" \in DOMAIN results.c

\* a run in which the extraction routine failed leaves the stored factor
\* tree (and the raw outputs) exactly as they were
FailedBuildKeepsTree ==
    (Called("run") /\ last'.outcome = "ExtractionError") =>
        /\ <<"create_factor_tree", "">> \in last'.calls
        /\ results'.has_tree = results.has_tree
        /\ results'.factor_tree = Aged(results.factor_tree)
        /\ results'.factor_tree_Rout = Aged(results.factor_tree_Rout)

\* a run(rerun=False) called right after a run in which the extraction failed
RunAfterFailedBuild ==
    /\ last.op = "run" /\ last.outcome = "ExtractionError"
    /\ Called("run") /\ ~last'.rerun

StoredTreeLen == IF results.has_tree THEN Len(results.factor_tree) ELSE 0

\* C23 as claimed: when the extraction routine fails while run builds the
\* tree, the run aborts and the stored tree is what it was before the run
\* (absent, or the previous complete tree), and a later run(rerun=False)
\* attempts the build again.
C23_FailedBuildRetried ==
    [][/\ FailedBuildKeepsTree
       /\ RunAfterFailedBuild =>
             <<"create_factor_tree", "">> \in last'.calls]_vars

\* C23 as amended: when the extraction routine fails while run builds the
\* tree, the run aborts and the stored tree is what it was before the run
\* (absent, or the previous complete tree); a later run(rerun=False)
\* attempts the build again if and only if the stored tree is absent or
\* shorter than max_factors, and otherwise keeps the stored tree.
C23_FailedBuildRetriedIfShort ==
    [][/\ FailedBuildKeepsTree
       /\ RunAfterFailedBuild =>
             /\ max_factors' = max_factors
             /\ <<"create_factor_tree", "">> \in last'.calls
                   <=> StoredTreeLen < max_factors
             /\ StoredTreeLen >= max_factors =>
                   /\ last'.outcome = "ok"
                   /\ results'.factor_tree = Aged(results.factor_tree)]_vars

\* C23 witness: the extraction has failed in a run(rerun=True) on a session
\* that held a complete tree covering 1..max_factors, and the tree is kept
C23_Witness ==
    /\ last.op = "run" /\ last.rerun /\ last.outcome = "ExtractionError"
    /\ results.has_tree
    /\ Len(results.factor_tree) >= max_factors
    /\ \A c \in DOMAIN results.factor_tree : results.factor_tree[c] = "old"

\* a step that is a call of a bootstrap repetition
Repeated(op) == boot'.n = boot.n + 1 /\ boot'.op = op

\* C21: a run_bootstrap call with a save_dir that returns has written one
\* complete file, the one named from the identifier it drew, has left
\* every other file of save_dir as it was and has returned None; a call
\* without save_dir that returns has returned the bundle (data, EFA, and
\* HCA exactly when run_HCA is true) and has left save_dir as it was.
C21_SaveOrReturn ==
    [][(Repeated("run_bootstrap") /\ boot'.outcome = "ok") =>
          /\ boot'.save =>
                /\ boot'.ret = "None"
                /\ DOMAIN files' = DOMAIN files \cup {boot'.id}
                /\ \A x \in DOMAIN files : x # boot'.id => files'[x] = files[x]
                /\ files'[boot'.id]
                      = [state |-> "complete", owner |-> boot'.n,
                         has_HCA |-> boot'.run_HCA, writers |-> {}]
          /\ ~boot'.save =>
                /\ boot'.ret = "boot_run"
                /\ boot'.boot_run.data = boot'.data
                /\ boot'.boot_run.EFA = boot'.EFA /\ boot'.EFA.id # 0
                /\ boot'.boot_run.has_HCA = boot'.run_HCA
                /\ boot'.run_HCA =>
                      boot'.boot_run.HCA = boot'.HCA /\ boot'.HCA.id # 0
                /\ files' = files]_vars

\* C21 witness: the second run_bootstrap call has saved its run next to the
\* file of the first call and returned None
C21_Witness ==
    /\ boot.op = "run_bootstrap" /\ boot.outcome = "ok"
    /\ boot.save /\ boot.ret = "None" /\ boot.n = 2
    /\ Cardinality(DOMAIN files) = 2
    /\ files[boot.id].owner = 2 /\ files[boot.id].state = "complete"

\* the rows of a dataset
Rows(d) == {d[i] : i \in DOMAIN d}

\* the objects the repetitions have constructed: one list per class
MadeIds(b, class) == {b[i][class] : i \in DOMAIN b} \ {0}

\* C22: every bootstrap repetition (run_bootstrap, run_EFA_bootstrap,
\* run_HCA_bootstrap) works on a resample with as many rows as the
\* session's dataset, each of them a row of that dataset, and on EFA and
\* HCA objects it has newly constructed (no other repetition and not the
\* session holds them, and nothing in them predates the call); it leaves
\* the session's data, EFA.results, EFA.max_factors and HCA.results as
\* they were.
C22_RepetitionIsolated ==
    [][(\E op \in {"run_bootstrap", "run_EFA_bootstrap", "run_HCA_bootstrap"} :
           Repeated(op)) =>
          /\ Len(boot'.data) = Len(data)
          /\ Rows(boot'.data) \subseteq Rows(data)
          /\ boot'.EFA.id # 0 =>
                /\ boot'.EFA.id \notin {1, 2}
                /\ boot'.EFA.id \notin MadeIds(boots, "EFA")
                                         \cup MadeIds(boots, "HCA")
                /\ boot'.EFA.data = boot'.data
                /\ \A m \in DOMAIN boot'.EFA.results.cscores :
                      boot'.EFA.results.cscores[m] = "new"
                /\ \A c \in DOMAIN boot'.EFA.results.factor_tree :
                      boot'.EFA.results.factor_tree[c] = "new"
          /\ boot'.HCA.id # 0 =>
                /\ boot'.HCA.id \notin {1, 2, boot'.EFA.id}
                /\ boot'.HCA.id \notin MadeIds(boots, "EFA")
                                         \cup MadeIds(boots, "HCA")
                /\ \A key \in DOMAIN boot'.HCA.results :
                      boot'.HCA.results[key].obj = "new"
          /\ Cardinality(MadeIds(boots', "EFA"))
                = Cardinality({i \in DOMAIN boots' : boots'[i].EFA # 0})
          /\ Cardinality(MadeIds(boots', "HCA"))
                = Cardinality({i \in DOMAIN boots' : boots'[i].HCA # 0})
          /\ data' = data
          /\ results' = results
          /\ max_factors' = max_factors
          /\ hca' = hca]_vars

\* C22 witness: two repetitions have run on a session that holds its own
\* factor tree and clusterings; the last one, a run_bootstrap with HCA,
\* worked on a resample that repeats a row of the dataset
C22_Witness ==
    /\ Len(boots) = 2
    /\ boots[1].EFA # 0
    /\ boot.op = "run_bootstrap" /\ boot.outcome = "ok" /\ boot.run_HCA
    /\ Len(boot.data) = NRows
    /\ Rows(boot.data) # Rows(data)
    /\ results.has_tree
    /\ DOMAIN hca # {}

\* the summary of the last run is the compact one: the chosen counts, the
\* loading matrix of the run's factor tree at each of them, and the run's
\* clusterings
SummaryIsCompact ==
    \E r \in {boot.boot_run.EFA.results}, sm \in {summary.results} :
       /\ sm.outcome = "ok"
       /\ sm.keys = {"metric_cs", "factor_solutions", "HCA_solutions"}
       /\ sm.metric_cs = r.c
       /\ DOMAIN sm.factor_solutions = {r.c[m] : m \in DOMAIN r.c}
       /\ \A m \in DOMAIN r.c :
             /\ r.c[m] \in DOMAIN r.factor_tree
             /\ sm.factor_solutions[r.c[m]]
                   = [of |-> "factor_tree", c |-> r.c[m],
                      obj |-> r.factor_tree[r.c[m]]]
       /\ sm.HCA_solutions = boot.boot_run.HCA.results

\* reduce_boot has been called on the run the last run_bootstrap saved
ReducedSaved ==
    /\ boot.op = "run_bootstrap" /\ boot.outcome = "ok" /\ boot.save
    /\ summary.n = boot.n

\* C24: for every persisted bootstrap run, reduce_boot produces a summary
\* whose metric_cs are the run's chosen counts, whose factor_solutions has
\* one entry per distinct chosen count, the loading matrix of the run's
\* factor tree at that count (every chosen count is a key of the tree),
\* and whose HCA_solutions are the run's clustering results, and nothing
\* else.
C24_SummaryOfEveryRun == ReducedSaved => SummaryIsCompact

\* the same for the runs made with run_HCA true
SummaryOfRunWithHCA == (ReducedSaved /\ boot.run_HCA) => SummaryIsCompact

\* reduce_boot has summarised a saved run whose two criteria chose
\* different counts
SummaryOfTwoCounts ==
    /\ ReducedSaved /\ boot.run_HCA
    /\ Cardinality(DOMAIN summary.results.factor_solutions) = 2

====
